---- MODULE Spec2Model ----
(***************************************************************************)
(* State-machine model of the persona chat bot of hello_recruiter:         *)
(*   src/Me.py          _safe_json_loads, _call_tool, _retry_chat_create,  *)
(*                      Me._handle_tool_calls, Me.chat                     *)
(*   src/system_prompt.py  system_prompt                                   *)
(*                                                                         *)
(* Python values are tagged records [type |-> ..., ...]; a dict is         *)
(* [type |-> "dict", items |-> f] with f a function from key strings.      *)
(* Durations are in milliseconds (0.5 s = 500).                            *)
(***************************************************************************)
EXTENDS Integers, Sequences, FiniteSets, TLC

VARIABLES
    pc,              \* position of the caller: "idle", "awaiting", "returned", "done", "raised"
    TOOL_REGISTRY,   \* Me.py:24-29, name -> callable (process-wide)
    prompt_kwargs,   \* the keyword arguments system_prompt was called with
    system_prompt_,  \* the module's prompt, kept as self.system_prompt (Me.py:74)
    max_tool_turns,  \* self.max_tool_turns (Me.py:75)
    caller_history,  \* the caller's own history sequence (argument of chat)
    messages,        \* chat's local message list (Me.py:108)
    tool_turns,      \* chat's local counter (Me.py:114)
    attempts,        \* _retry_chat_create: calls of client.chat.completions.create made
    sleeps,          \* _retry_chat_create: arguments of time.sleep, in order
    errors,          \* _retry_chat_create: class of each exception create raised, in order
    produced,        \* what the successful create call produced, <<>> if none
    response,        \* value returned by the last _retry_chat_create, <<>> if none
    exc,             \* exception propagated to the caller ("" if none)
    ret,             \* value returned by chat
    requests,        \* number of _retry_chat_create calls begun in this chat call
    finishes,        \* finish reasons of the responses received in this chat call
    rounds,          \* number of _handle_tool_calls runs completed in this chat call
    dispatched       \* log of _call_tool calls of this chat call

vars == <<pc, TOOL_REGISTRY, prompt_kwargs, system_prompt_, max_tool_turns, caller_history, messages,
          tool_turns, attempts, sleeps, errors, produced, response, exc, ret,
          requests, finishes, rounds, dispatched>>

-----------------------------------------------------------------------------
(* Bounds and input sets *)

\* largest max_tool_turns a Me object is constructed with
MaxTurns == 2

\* identifiers the model API hands out for tool invocations; each is used once per chat call
ToolCallIds == <<"call_1", "call_2">>

\* tools/__init__: the declared schemas and the functions the star-import defines
TOOL_SCHEMAS == <<"record_user_details", "record_unknown_question">>
ToolGlobals == {"record_user_details"}

\* tool names the model may ask for
ToolNames == {"record_user_details", "record_unknown_question"}

\* raw argument payloads: empty, malformed, an object, a well-formed non-object
EmptyPayload == ""
MalformedPayload == "{bad"
ObjectPayload == "{\"email\": \"a@b.c\"}"
ArrayPayload == "[1]"
Payloads == {EmptyPayload, MalformedPayload, ObjectPayload, ArrayPayload}

\* what a registered tool does when invoked
ToolBehaviours == {"returns", "raises", "returns_unserializable"}

\* assistant_msg.content: None is <<>>, a string s is <<s>>
Contents == {<<>>, <<" ">>, <<"Hello">>}
FinishReasons == {"tool_calls", "stop", "length"}

\* caller-supplied histories (None and [] coincide under `history or []`)
Histories ==
    { <<>>,
      << [role |-> "user", content |-> "Who are you?"],
         [role |-> "assistant", content |-> "Old reply"] >> }
UserMessages == {"hi"}

-----------------------------------------------------------------------------
(* Python values *)

PyDict(f) == [type |-> "dict", items |-> f]
PyList == [type |-> "list"]
PyObject == [type |-> "object"]   \* a value json.dumps cannot serialize (a set, a datetime, ...)
EmptyMap == [k \in {} |-> ""]

\* dict.get(key, default)
Get(m, k, default) == IF k \in DOMAIN m THEN m[k] ELSE default

\* Python truthiness of an Optional[str] content, then `content or ""` (Me.py:132)
OrEmpty(c) == IF c = <<>> THEN "" ELSE c[1]

\* str.strip() on the strings of the model: blank strings become ""
Blank == {"", " "}
Strip(s) == IF s \in Blank THEN "" ELSE s

\* json.loads on the payloads of the model: a value, or JSONDecodeError with its message
json_loads(s) ==
    CASE s = ObjectPayload -> [exc |-> "", value |-> PyDict("email" :> "a@b.c")]
      [] s = ArrayPayload  -> [exc |-> "", value |-> PyList]
      [] OTHER -> [exc |-> "JSONDecodeError",
                   msg |-> "Expecting property name enclosed in double quotes: line 1 column 2 (char 1)"]

\* _safe_json_loads without its except clause: the decode error propagates
safe_json_loads_unguarded(s) ==
    IF s = ""
    THEN [exc |-> "", value |-> PyDict(EmptyMap)]
    ELSE LET r == json_loads(s) IN
         IF r.exc = ""
         THEN [exc |-> "", value |-> r.value]
         ELSE [exc |-> r.exc, value |-> PyDict(EmptyMap)]

\* Me.py:32-37
_safe_json_loads(s) ==
    IF s = ""
    THEN [exc |-> "", value |-> PyDict(EmptyMap)]
    ELSE LET r == json_loads(s) IN
         IF r.exc = ""
         THEN [exc |-> "", value |-> r.value]
         ELSE [exc |-> "",
               value |-> PyDict(("_error" :> ("Invalid JSON arguments: " \o r.msg))
                                @@ ("_raw" :> s))]

-----------------------------------------------------------------------------
(* Serialization *)

\* keys of the dicts of the model, in the order the code inserts them
DumpKeyOrder == <<"_error", "_raw", "recorded">>

RECURSIVE DumpItems(_, _, _)
\* the "key": "value" pairs of items f from position i of DumpKeyOrder on, comma-separated
DumpItems(f, i, first) ==
    IF i > Len(DumpKeyOrder) THEN ""
    ELSE LET k == DumpKeyOrder[i] IN
         IF k \in DOMAIN f
         THEN (IF first THEN "" ELSE ", ") \o "\"" \o k \o "\": \"" \o f[k] \o "\""
              \o DumpItems(f, i + 1, FALSE)
         ELSE DumpItems(f, i + 1, first)

\* json.dumps (Me.py:91): the JSON text of a dict of strings; TypeError for a
\* value that is not JSON serializable
json_dumps(v) ==
    CASE v.type = "dict" -> [exc |-> "", text |-> "{" \o DumpItems(v.items, 1, TRUE) \o "}"]
      [] v.type = "list" -> [exc |-> "", text |-> "[1]"]
      [] OTHER -> [exc |-> "TypeError", text |-> ""]

-----------------------------------------------------------------------------
(* Tool registry and dispatcher *)

\* Me.py:24-29: the declared names whose global is callable
BuildRegistry ==
    [n \in {TOOL_SCHEMAS[i] : i \in {j \in 1..Len(TOOL_SCHEMAS) : TOOL_SCHEMAS[j] \in ToolGlobals}}
        |-> "function"]

\* the value a well-behaved tool returns
ToolValue == PyDict("recorded" :> "ok")

\* Me.py:44: the keyword arguments passed to the tool
ToolKwargs(items) == [k \in (DOMAIN items) \ {"_error"} |-> items[k]]

\* the exception a misbehaving tool raises: raise RuntimeError("boom")
ToolException == [class |-> "RuntimeError", msg |-> "boom"]

\* _call_tool without the `if not fn` test: the None that the lookup gives for an
\* unregistered name is called inside the try block
call_tool_unchecked(registry, tool_name, arguments, behaviour) ==
    IF tool_name \notin DOMAIN registry \/ arguments.type # "dict"
    THEN [exc |-> "", ok |-> FALSE, invoked |-> FALSE, kwargs |-> EmptyMap,
          result |-> PyDict("_error" :> ("Tool '" \o tool_name
                        \o "' failed: TypeError: 'NoneType' object is not callable"))]
    ELSE [exc |-> "", ok |-> behaviour = "returns", invoked |-> TRUE,
          kwargs |-> ToolKwargs(arguments.items),
          result |-> IF behaviour = "returns" THEN ToolValue
                     ELSE PyDict("_error" :> ("Tool '" \o tool_name \o "' failed: "
                             \o ToolException.class \o ": " \o ToolException.msg))]

\* _call_tool without its try/except: what the tool raises leaves the dispatcher
call_tool_unguarded(registry, tool_name, arguments, behaviour) ==
    IF tool_name \notin DOMAIN registry
    THEN [exc |-> "", ok |-> FALSE, invoked |-> FALSE, kwargs |-> EmptyMap,
          result |-> PyDict("_error" :> ("Unknown tool: '" \o tool_name \o "'"))]
    ELSE IF arguments.type # "dict"
    THEN [exc |-> "AttributeError", ok |-> FALSE, invoked |-> FALSE, kwargs |-> EmptyMap,
          result |-> PyDict(EmptyMap)]
    ELSE IF behaviour = "raises"
    THEN [exc |-> ToolException.class, ok |-> FALSE, invoked |-> TRUE,
          kwargs |-> ToolKwargs(arguments.items), result |-> PyDict(EmptyMap)]
    ELSE [exc |-> "", ok |-> TRUE, invoked |-> TRUE, kwargs |-> ToolKwargs(arguments.items),
          result |-> IF behaviour = "returns" THEN ToolValue ELSE PyObject]

\* Me.py:39-47.  behaviour is what the tool implementation does if it is invoked.
\* invoked tells whether the implementation ran, kwargs what it was given.
_call_tool(registry, tool_name, arguments, behaviour) ==
    IF tool_name \notin DOMAIN registry
    THEN [exc |-> "", ok |-> FALSE, invoked |-> FALSE, kwargs |-> EmptyMap,
          result |-> PyDict("_error" :> ("Unknown tool: '" \o tool_name \o "'"))]
    ELSE IF arguments.type # "dict"
    THEN \* arguments.items() raises AttributeError inside the try block
         [exc |-> "", ok |-> FALSE, invoked |-> FALSE, kwargs |-> EmptyMap,
          result |-> PyDict("_error" :> ("Tool '" \o tool_name
                        \o "' failed: AttributeError: '" \o arguments.type
                        \o "' object has no attribute 'items'"))]
    ELSE LET kw == ToolKwargs(arguments.items) IN
         CASE behaviour = "returns" ->
                [exc |-> "", ok |-> TRUE, invoked |-> TRUE, kwargs |-> kw, result |-> ToolValue]
           [] behaviour = "returns_unserializable" ->
                [exc |-> "", ok |-> TRUE, invoked |-> TRUE, kwargs |-> kw, result |-> PyObject]
           [] OTHER ->
                [exc |-> "", ok |-> FALSE, invoked |-> TRUE, kwargs |-> kw,
                 result |-> PyDict("_error" :> ("Tool '" \o tool_name \o "' failed: "
                               \o ToolException.class \o ": " \o ToolException.msg))]

\* Me.py:81-92, one iteration of the loop over the requested invocations
HandleOne(registry, tc, behaviour) ==
    LET parsed == _safe_json_loads(tc.arguments) IN
    IF parsed.exc # ""
    THEN [exc |-> parsed.exc, results |-> <<>>, log |-> <<>>]
    ELSE LET call == _call_tool(registry, tc.name, parsed.value, behaviour) IN
         LET entry == [id |-> tc.id, name |-> tc.name, raw |-> tc.arguments,
                       args |-> parsed.value, invoked |-> call.invoked,
                       kwargs |-> call.kwargs, ok |-> call.ok, result |-> call.result,
                       behaviour |-> IF call.invoked THEN behaviour ELSE "none"] IN
         IF call.exc # ""
         THEN [exc |-> call.exc, results |-> <<>>, log |-> <<entry>>]
         ELSE LET text == json_dumps(call.result) IN
              IF text.exc # ""
              THEN [exc |-> text.exc, results |-> <<>>, log |-> <<entry>>]
              ELSE [exc |-> "", log |-> <<entry>>,
                    results |-> << [role |-> "tool", tool_call_id |-> tc.id,
                                    content |-> text.text] >>]

RECURSIVE HandleFrom(_, _, _, _)
\* the loop of Me.py:81 from invocation i on; an exception ends it and loses the results
HandleFrom(registry, tool_calls, behaviours, i) ==
    IF i > Len(tool_calls)
    THEN [exc |-> "", results |-> <<>>, log |-> <<>>]
    ELSE LET one == HandleOne(registry, tool_calls[i], behaviours[i]) IN
         IF one.exc # ""
         THEN one
         ELSE LET rest == HandleFrom(registry, tool_calls, behaviours, i + 1) IN
              [exc |-> rest.exc,
               results |-> IF rest.exc = "" THEN one.results \o rest.results ELSE <<>>,
               log |-> one.log \o rest.log]

\* _handle_tool_calls putting each result in front of the earlier ones
handle_tool_calls_prepending(registry, tool_calls, behaviours) ==
    LET r == HandleFrom(registry, tool_calls, behaviours, 1) IN
    [r EXCEPT !.results = [i \in 1..Len(r.results) |-> r.results[Len(r.results) + 1 - i]]]

\* Me.py:77-93
_handle_tool_calls(registry, tool_calls, behaviours) ==
    HandleFrom(registry, tool_calls, behaviours, 1)

-----------------------------------------------------------------------------
(* The system prompt (system_prompt.py).  A text is the sequence of its lines;  *)
(* a line is its leading spaces (indent) and the rest of it (text), so a        *)
(* whitespace-only line has text "".  The str "" is the one empty line.         *)

Line(n, t) == [indent |-> n, text |-> t]
EmptyText == << Line(0, "") >>

\* indentation of the template lines inside the f-string (system_prompt.py:16-32)
TemplateIndent == 8
\* indentation of the line that closes the f-string (system_prompt.py:33)
ClosingIndent == 4

\* values of the text fields: one line, the empty str, two flush lines, an
\* indented continuation line, a whitespace-only line between two lines
OneLine == << Line(0, "Engineer.") >>
FlushLines == << Line(0, "Engineer."), Line(0, "Builds things.") >>
IndentedContinuation == << Line(0, "Skills:"), Line(2, "- Python") >>
WhitespaceLine == << Line(0, "Intro"), Line(2, ""), Line(0, "Outro") >>
Texts == {OneLine, EmptyText, FlushLines, IndentedContinuation, WhitespaceLine}
Names == {"Rob Chavez", "Ana"}
ToolOverrides == {"log_question"}

\* None or one value of S
Opt(S) == {<<>>} \cup {<<v>> : v \in S}
Field(k, o) == IF o = <<>> THEN EmptyMap ELSE k :> o[1]

\* the keyword mappings system_prompt is called with: every subset of its fields
AllKwargs ==
    { Field("name", n) @@ Field("summary", s) @@ Field("linkedin", l)
        @@ Field("unknown_tool", u) @@ Field("contact_tool", c) :
        n \in Opt(Names), s \in Opt(Texts), l \in Opt(Texts),
        u \in Opt(ToolOverrides), c \in Opt(ToolOverrides) }

\* system_prompt.py:47-51: the call the module makes when it is imported
ModulePromptKwargs ==
    ("name" :> "Rob Chavez") @@ ("summary" :> OneLine) @@ ("linkedin" :> OneLine)

\* a text interpolated after n spaces on a line of its own: the first line joins
\* the spaces, the other lines start at the left edge
Interpolate(n, t) == << Line(n + t[1].indent, t[1].text) >> \o Tail(t)

\* system_prompt.py:7-33: the f-string with the fields (or their defaults) filled in
Format(kwargs) ==
    LET name == Get(kwargs, "name", "Unknown Person")
        summary == Get(kwargs, "summary", EmptyText)
        linkedin == Get(kwargs, "linkedin", EmptyText)
        unknown_tool == Get(kwargs, "unknown_tool", "record_unknown_question")
        contact_tool == Get(kwargs, "contact_tool", "record_user_details")
        T(t) == Line(TemplateIndent, t)
    IN << Line(0, ""),
          T("You are acting as " \o name \o ". You are answering questions on "
                \o name \o "'s website,"),
          T("particularly questions related to " \o name
                \o "'s career, background, skills, and experience."),
          T("Your responsibility is to represent " \o name
                \o " for interactions on the website as faithfully as possible."),
          T("You are given a summary of " \o name
                \o "'s background and LinkedIn profile which you can use to answer questions."),
          T("Be professional and engaging, as if talking to a potential client or future employer who came across the website."),
          T("If you don't know the answer to any question, use your " \o unknown_tool
                \o " tool to record the question that you couldn't answer,"),
          T("even if it's about something trivial or unrelated to career."),
          T("If the user is engaging in discussion, try to steer them towards getting in touch via email; ask for their email and"),
          T("record it using your " \o contact_tool \o " tool."),
          Line(0, ""),
          T("## Summary:") >>
       \o Interpolate(TemplateIndent, summary)
       \o << Line(0, ""), T("## LinkedIn Profile:") >>
       \o Interpolate(TemplateIndent, linkedin)
       \o << Line(0, ""),
             T("With this context, please chat with the user, always staying in character as "
                \o name \o "."),
             Line(ClosingIndent, "") >>

NonBlank(lines) == {i \in 1..Len(lines) : lines[i].text # ""}
MinOf(S) == CHOOSE x \in S : \A y \in S : x <= y
MaxOf(S) == CHOOSE x \in S : \A y \in S : x >= y

\* textwrap.dedent (system_prompt.py:15): whitespace-only lines become empty, the
\* leading spaces common to all other lines are removed from each of them
dedent(lines) ==
    LET margin == IF NonBlank(lines) = {} THEN 0
                  ELSE MinOf({lines[i].indent : i \in NonBlank(lines)})
    IN [i \in 1..Len(lines) |->
            IF lines[i].text = "" THEN Line(0, "")
            ELSE Line(lines[i].indent - margin, lines[i].text)]

\* str.strip (system_prompt.py:33): leading and trailing whitespace, line breaks included
strip(lines) ==
    IF NonBlank(lines) = {} THEN EmptyText
    ELSE LET first == MinOf(NonBlank(lines))
             last == MaxOf(NonBlank(lines))
         IN [k \in 1..(last - first + 1) |->
                IF k = 1 THEN Line(0, lines[first].text) ELSE lines[first + k - 1]]

\* system_prompt.py:5-35
system_prompt(kwargs) == strip(dedent(Format(kwargs)))

-----------------------------------------------------------------------------
(* The model API *)

\* a schedule one entry short
delays_three == <<500, 1000, 2000>>

\* Me.py:54, in milliseconds
delays == <<500, 1000, 2000, 4000>>

TransientErrors == {"RateLimitError", "InternalServerError"}
\* any APIError that is neither of the two (bad request, authentication, connection, ...)
NonTransientErrors == {"APIError"}

\* Me.py:59, 63: the except clause an exception of create falls under
ErrorClass(e) == IF e \in TransientErrors THEN "transient" ELSE "non-transient"

\* every API error is retried until the schedule is used up
Propagates_final_only(e, n) == n >= Len(delays)

\* Me.py:56-67: whether exception e of the create call made after n earlier calls
\* leaves the wrapper (a non-transient error, or any error of the final attempt)
Propagates(e, n) == e \in NonTransientErrors \/ n >= Len(delays)

\* always the first delay
SleepFor_first(n) == delays[1]

\* Me.py:56, 62: the delay slept after the failure of call number n + 1
SleepFor(n) == delays[n + 1]

\* Me.py:58, 67: the wrapper returns what create returned
WrapperResult(r) == r

\* number of tool invocations the assistant messages of msgs carry
RECURSIVE CarriedCalls(_)
CarriedCalls(msgs) ==
    IF msgs = <<>> THEN 0
    ELSE Len(Get(msgs[Len(msgs)], "tool_calls", <<>>)) + CarriedCalls(SubSeq(msgs, 1, Len(msgs) - 1))

\* the tool_calls lists a response to msgs may carry: fresh identifiers, in order
ToolCallLists(msgs) ==
    LET used == CarriedCalls(msgs) IN
    UNION { { [i \in 1..n |-> [id |-> ToolCallIds[used + i], name |-> nm[i], arguments |-> pl[i]]] :
                nm \in [1..n -> ToolNames], pl \in [1..n -> Payloads] } :
            n \in 0..(Len(ToolCallIds) - used) }

\* response.choices[0] (Me.py:125-127)
Responses(msgs) ==
    { [finish_reason |-> f, content |-> c, tool_calls |-> tcs] :
        f \in FinishReasons, c \in Contents, tcs \in ToolCallLists(msgs) }

\* whether the registered implementation runs for tc (its behaviour then matters)
Runs(registry, tc) ==
    /\ tc.name \in DOMAIN registry
    /\ _safe_json_loads(tc.arguments).exc = ""
    /\ _safe_json_loads(tc.arguments).value.type = "dict"

\* tools are dispatched whenever the assistant message carries requests
WantsTools_carried(r) == r.tool_calls # <<>>

\* Me.py:136
WantsTools(r) == r.finish_reason = "tool_calls"

\* one behaviour per invocation of response r received after turns tool turns;
\* "returns" where the implementation does not run
BehaviourChoices(registry, r, turns, max) ==
    { b \in [1..Len(r.tool_calls) -> ToolBehaviours] :
        \A i \in 1..Len(r.tool_calls) :
            ~(/\ WantsTools(r)
              /\ turns + 1 <= max
              /\ Runs(registry, r.tool_calls[i])) => b[i] = "returns" }

-----------------------------------------------------------------------------
(* Me.chat *)

\* the system message put after the caller's history
InitialMessages_system_after(prompt, history, message) ==
    history \o << [role |-> "system", content |-> prompt],
                  [role |-> "user", content |-> message] >>

\* Me.py:108-112
InitialMessages(prompt, history, message) ==
    << [role |-> "system", content |-> prompt] >> \o history
        \o << [role |-> "user", content |-> message] >>

\* Me.py:130-134
AssistantMessage(r) ==
    IF r.tool_calls # <<>>
    THEN [role |-> "assistant", content |-> OrEmpty(r.content), tool_calls |-> r.tool_calls]
    ELSE [role |-> "assistant", content |-> OrEmpty(r.content)]

\* the first assistant message with text instead of the last
FirstAssistantText(msgs, i) ==
    LET idx == {j \in 1..i : msgs[j].role = "assistant"
                              /\ Strip(Get(msgs[j], "content", "")) # ""} IN
    IF idx = {} THEN "" ELSE msgs[CHOOSE j \in idx : \A k \in idx : j <= k].content

RECURSIVE LastAssistantText(_, _)
\* Me.py:153-156: scan msgs[1..i] from the end
LastAssistantText(msgs, i) ==
    IF i = 0 THEN ""
    ELSE IF msgs[i].role = "assistant" /\ Strip(Get(msgs[i], "content", "")) # ""
         THEN msgs[i].content
         ELSE LastAssistantText(msgs, i - 1)

ReturnText(msgs) == LastAssistantText(msgs, Len(msgs))

\* the budget check off by one either way
BudgetExceeded_late(turns, max) == turns > max + 1
BudgetExceeded_early(turns, max) == turns >= max

\* Me.py:138
BudgetExceeded(turns, max) == turns > max

\* Me.py:137
NextToolTurns(turns) == turns + 1

\* chat works on the caller's own list, so what it appends shows up there
CallerHistory_aliased(history, msgs) == msgs

\* Me.py:107-112: list(history or []) and the concatenation make new lists, so the
\* caller's list stays what it was whatever chat appends to messages
CallerHistory(history, msgs) == history

Init ==
    /\ pc = "idle"
    /\ TOOL_REGISTRY = BuildRegistry
    /\ prompt_kwargs = ModulePromptKwargs
    /\ system_prompt_ = system_prompt(prompt_kwargs)
    /\ max_tool_turns \in 0..MaxTurns
    /\ caller_history = <<>>
    /\ messages = <<>>
    /\ tool_turns = 0
    /\ attempts = 0
    /\ sleeps = <<>>
    /\ errors = <<>>
    /\ produced = <<>>
    /\ response = <<>>
    /\ exc = ""
    /\ ret = ""
    /\ requests = 0
    /\ finishes = <<>>
    /\ rounds = 0
    /\ dispatched = <<>>

\* Me.py:107-117: a call of chat up to its first model request
Chat(message, history) ==
    /\ pc \in {"idle", "done", "raised"}
    /\ pc' = "awaiting"
    /\ caller_history' = history
    /\ messages' = InitialMessages(system_prompt_, history, message)
    /\ tool_turns' = 0
    /\ attempts' = 0
    /\ sleeps' = <<>>
    /\ errors' = <<>>
    /\ produced' = <<>>
    /\ response' = <<>>
    /\ exc' = ""
    /\ ret' = ""
    /\ requests' = 1
    /\ finishes' = <<>>
    /\ rounds' = 0
    /\ dispatched' = <<>>
    /\ UNCHANGED <<TOOL_REGISTRY, prompt_kwargs, system_prompt_, max_tool_turns>>

\* Me.py:56-62: a create call inside the loop fails with a transient error;
\* the wrapper logs, sleeps the scheduled delay and goes on to the next call
CreateTransientRetry(e) ==
    /\ pc = "awaiting"
    /\ ~Propagates(e, attempts)
    /\ attempts' = attempts + 1
    /\ errors' = Append(errors, ErrorClass(e))
    /\ sleeps' = Append(sleeps, SleepFor(attempts))
    /\ UNCHANGED <<pc, TOOL_REGISTRY, prompt_kwargs, system_prompt_, max_tool_turns, caller_history,
                   messages, tool_turns, produced, response, exc, ret, requests,
                   finishes, rounds, dispatched>>

\* Me.py:63-65 and 67: a non-transient error at any call, or any error of the
\* final call, propagates out of the wrapper and out of chat
CreateRaises(e) ==
    /\ pc = "awaiting"
    /\ Propagates(e, attempts)
    /\ attempts' = attempts + 1
    /\ errors' = Append(errors, ErrorClass(e))
    /\ pc' = "raised"
    /\ exc' = e
    /\ UNCHANGED <<TOOL_REGISTRY, prompt_kwargs, system_prompt_, max_tool_turns, caller_history,
                   messages, tool_turns, sleeps, produced, response, ret, requests,
                   finishes, rounds, dispatched>>

\* Me.py:58 or 67: a create call succeeds and the wrapper returns
RetryReturns(r) ==
    /\ pc = "awaiting"
    /\ attempts' = attempts + 1
    /\ produced' = <<r>>
    /\ response' = <<WrapperResult(r)>>
    /\ pc' = "returned"
    /\ UNCHANGED <<TOOL_REGISTRY, prompt_kwargs, system_prompt_, max_tool_turns, caller_history,
                   messages, tool_turns, sleeps, errors, exc, ret, requests,
                   finishes, rounds, dispatched>>

\* Me.py:125-149 and 151-156: the loop body on response r, with the tools behaving as b
ChatStep(r0, b) ==
    LET r == WrapperResult(r0)
        msgs1 == Append(messages, AssistantMessage(r)) IN
    /\ finishes' = Append(finishes, r.finish_reason)
    /\ IF WantsTools(r)
       THEN /\ tool_turns' = NextToolTurns(tool_turns)
            /\ IF BudgetExceeded(tool_turns', max_tool_turns)
               THEN /\ pc' = "done"
                    /\ messages' = msgs1
                    /\ ret' = ReturnText(msgs1)
                    /\ UNCHANGED <<exc, requests, rounds, dispatched>>
               ELSE LET h == _handle_tool_calls(TOOL_REGISTRY, r.tool_calls, b) IN
                    /\ dispatched' = dispatched \o h.log
                    /\ IF h.exc # ""
                       THEN /\ pc' = "raised"
                            /\ exc' = h.exc
                            /\ messages' = msgs1
                            /\ UNCHANGED <<ret, requests, rounds>>
                       ELSE /\ pc' = "awaiting"
                            /\ messages' = msgs1 \o h.results
                            /\ rounds' = rounds + 1
                            /\ requests' = requests + 1
                            /\ UNCHANGED <<exc, ret>>
       ELSE /\ pc' = "done"
            /\ messages' = msgs1
            /\ ret' = ReturnText(msgs1)
            /\ UNCHANGED <<tool_turns, exc, requests, rounds, dispatched>>
    /\ caller_history' = CallerHistory(caller_history, messages')

\* Me.py:58 or 67 succeeds, then Me.py:125-156: the wrapper returns r and chat runs
\* its loop body up to the next model request, its return or an exception
ModelResponds(r, b) ==
    /\ pc = "awaiting"
    /\ ChatStep(r, b)
    /\ attempts' = 0
    /\ sleeps' = <<>>
    /\ errors' = <<>>
    /\ produced' = <<>>
    /\ response' = <<>>
    /\ UNCHANGED <<TOOL_REGISTRY, prompt_kwargs, system_prompt_, max_tool_turns>>

Next ==
    \/ \E m \in UserMessages, h \in Histories : Chat(m, h)
    \/ \E e \in TransientErrors \cup NonTransientErrors : CreateTransientRetry(e)
    \/ \E e \in TransientErrors \cup NonTransientErrors : CreateRaises(e)
    \/ \E r \in Responses(messages) :
         \E b \in BehaviourChoices(TOOL_REGISTRY, r, tool_turns, max_tool_turns) :
            ModelResponds(r, b)

Spec == Init /\ [][Next]_vars

\* _retry_chat_create on its own: the first model request of a chat call, up to
\* the wrapper's return or the exception it lets through
InitRetry ==
    /\ pc = "awaiting"
    /\ TOOL_REGISTRY = BuildRegistry
    /\ prompt_kwargs = ModulePromptKwargs
    /\ system_prompt_ = system_prompt(prompt_kwargs)
    /\ max_tool_turns \in 0..MaxTurns
    /\ caller_history \in Histories
    /\ \E m \in UserMessages : messages = InitialMessages(system_prompt_, caller_history, m)
    /\ tool_turns = 0
    /\ attempts = 0
    /\ sleeps = <<>>
    /\ errors = <<>>
    /\ produced = <<>>
    /\ response = <<>>
    /\ exc = ""
    /\ ret = ""
    /\ requests = 1
    /\ finishes = <<>>
    /\ rounds = 0
    /\ dispatched = <<>>

NextRetry ==
    \/ \E e \in TransientErrors \cup NonTransientErrors : CreateTransientRetry(e)
    \/ \E e \in TransientErrors \cup NonTransientErrors : CreateRaises(e)
    \/ \E r \in Responses(messages) : RetryReturns(r)

SpecRetry == InitRetry /\ [][NextRetry]_vars

\* system_prompt on its own: the keyword mapping is given, the call builds the prompt
InitPrompt ==
    /\ pc = "importing"
    /\ TOOL_REGISTRY = BuildRegistry
    /\ prompt_kwargs \in AllKwargs
    /\ system_prompt_ = <<>>
    /\ max_tool_turns \in {MaxTurns}
    /\ caller_history = <<>>
    /\ messages = <<>>
    /\ tool_turns = 0
    /\ attempts = 0
    /\ sleeps = <<>>
    /\ errors = <<>>
    /\ produced = <<>>
    /\ response = <<>>
    /\ exc = ""
    /\ ret = ""
    /\ requests = 0
    /\ finishes = <<>>
    /\ rounds = 0
    /\ dispatched = <<>>

\* system_prompt.py:47-51, 5-35: prompt = system_prompt(**kwargs)
BuildPrompt ==
    /\ pc = "importing"
    /\ system_prompt_' = system_prompt(prompt_kwargs)
    /\ pc' = "idle"
    /\ UNCHANGED <<TOOL_REGISTRY, prompt_kwargs, max_tool_turns, caller_history, messages,
                   tool_turns, attempts, sleeps, errors, produced, response, exc, ret,
                   requests, finishes, rounds, dispatched>>

NextPrompt == BuildPrompt

SpecPrompt == InitPrompt /\ [][NextPrompt]_vars

-----------------------------------------------------------------------------
(* Properties *)

ApiErrors == TransientErrors \cup NonTransientErrors
AllToolCalls(fs) == \A i \in 1..Len(fs) : fs[i] = "tool_calls"
Last(q) == q[Len(q)]
\* the chat call has ended on a response whose finish reason is f
EndedOn(f) == pc = "done" /\ finishes # <<>> /\ Last(finishes) = f
ToolMessages == {i \in 1..Len(messages) : messages[i].role = "tool"}
IsMalformed(raw) == raw # "" /\ json_loads(raw).exc # ""

\* C1: within one chat call the tool-turn counter starts at 0, changes only by +1
\* and only on a response with finish reason tool_calls; once it exceeds
\* max_tool_turns the call is over: no tool is dispatched and no model request
\* is issued any more
C1_CounterBudget ==
    /\ [](tool_turns > max_tool_turns => pc = "done")
    /\ [][ /\ (pc # "awaiting" /\ pc' = "awaiting") => tool_turns' = 0
           /\ pc = "awaiting" =>
                /\ tool_turns' \in {tool_turns, tool_turns + 1}
                /\ tool_turns' = tool_turns + 1 =>
                     /\ Len(finishes') = Len(finishes) + 1
                     /\ Last(finishes') = "tool_calls"
                /\ tool_turns' > max_tool_turns =>
                     /\ dispatched' = dispatched
                     /\ rounds' = rounds
                     /\ requests' = requests
                     /\ pc' = "done" ]_vars

C1_Witness ==
    /\ pc = "done"
    /\ tool_turns > max_tool_turns
    /\ max_tool_turns = 2
    /\ Len(dispatched) = 2

\* C2: with a model that answers every request with finish reason tool_calls, a
\* chat call whose model requests all return ends in DONE after exactly
\* max_tool_turns tool rounds and max_tool_turns + 1 responses
C2_AlwaysToolCallsEndsDone ==
    (pc \in {"done", "raised"} /\ AllToolCalls(finishes) /\ exc \notin ApiErrors)
        => /\ pc = "done"
           /\ rounds = max_tool_turns
           /\ Len(finishes) = max_tool_turns + 1

\* C3 as stated: a final response with finish reason stop and non-empty text
\* (whitespace-only included) is what chat returns
C3_StopTextReturned_Original ==
    (EndedOn("stop") /\ Last(messages).content # "") => ret = Last(messages).content

\* C3 amended: a final response with finish reason stop and text that has a
\* non-whitespace character is what chat returns, whatever the history and the
\* number of tool rounds before it
C3_StopTextReturned ==
    (EndedOn("stop") /\ Strip(Last(messages).content) # "") => ret = Last(messages).content

C3_Witness ==
    /\ EndedOn("stop")
    /\ Last(messages).content = "Hello"
    /\ ret = "Hello"
    /\ rounds = 1
    /\ caller_history # <<>>

\* C4: k responses with finish reason tool_calls (k <= max_tool_turns) are each
\* answered by a tool round and a further model request, and when a response
\* with finish reason stop and text "Hello" follows them, chat has run exactly k
\* tool rounds, issued exactly k + 1 requests, and returns "Hello"
C4_RoundsThenStop ==
    /\ (pc \in {"awaiting", "done"} /\ AllToolCalls(finishes)
            /\ Len(finishes) <= max_tool_turns)
          => /\ pc = "awaiting"
             /\ rounds = Len(finishes)
             /\ requests = Len(finishes) + 1
    /\ (EndedOn("stop") /\ AllToolCalls(SubSeq(finishes, 1, Len(finishes) - 1))
            /\ Last(messages).content = "Hello")
          => /\ ret = "Hello"
             /\ rounds = Len(finishes) - 1
             /\ requests = Len(finishes)
             /\ Len(finishes) - 1 <= max_tool_turns

C4_Witness ==
    /\ pc = "done"
    /\ finishes = <<"tool_calls", "tool_calls", "stop">>
    /\ rounds = 2
    /\ requests = 3
    /\ Cardinality(ToolMessages) = 2
    /\ ret = "Hello"

\* C5: the only exceptions chat lets through are failures of a model API request
C5_OnlyApiErrorsPropagate ==
    pc = "raised" => exc \in ApiErrors

\* C6: the tool message that answers an invocation with a malformed argument
\* payload carries the serialized parse-error payload (error field and raw text)
C6_ParseErrorSurfaced ==
    \A i \in 1..Len(dispatched) : \A j \in ToolMessages :
        (IsMalformed(dispatched[i].raw) /\ messages[j].tool_call_id = dispatched[i].id)
            => messages[j].content = json_dumps(_safe_json_loads(dispatched[i].raw).value).text

\* C7: when every attempt fails with a transient error the wrapper makes exactly
\* 5 attempts on the same messages, sleeps 0.5, 1.0, 2.0 and 4.0 s in that order
\* (none after the fifth failure), and the fifth failure propagates
C7_BoundedRetry ==
    /\ []((pc = "raised" /\ exc \in TransientErrors) =>
            /\ attempts = 5
            /\ errors = [i \in 1..5 |-> "transient"]
            /\ sleeps = <<500, 1000, 2000, 4000>>)
    /\ []((pc = "awaiting" /\ \A i \in 1..Len(errors) : errors[i] = "transient") =>
            /\ attempts = Len(errors)
            /\ attempts <= 4
            /\ Len(sleeps) = attempts)
    /\ [][(pc = "awaiting" /\ attempts' = attempts + 1) => messages' = messages]_vars

C7_Witness ==
    /\ pc = "raised"
    /\ exc = "RateLimitError"
    /\ attempts = 5
    /\ sleeps = <<500, 1000, 2000, 4000>>

\* C8: k transient failures followed by a success (0 <= k <= 4): exactly k delays
\* were slept, the first k of the schedule in order, k + 1 attempts were made,
\* and the wrapper returns the response the successful attempt produced
C8_RetryThenSuccess ==
    pc = "returned" =>
        /\ Len(errors) \in 0..4
        /\ \A i \in 1..Len(errors) : errors[i] = "transient"
        /\ sleeps = SubSeq(<<500, 1000, 2000, 4000>>, 1, Len(errors))
        /\ attempts = Len(errors) + 1
        /\ produced # <<>>
        /\ response = produced

C8_Witness ==
    /\ pc = "returned"
    /\ errors = <<"transient", "transient">>
    /\ sleeps = <<500, 1000>>
    /\ attempts = 3
    /\ response # <<>>

\* C9: a non-transient API failure propagates at the attempt where it occurs:
\* after j transient failures exactly j delays were slept (none for it), it is
\* the last attempt made, and the wrapper is left
C9_NonTransientImmediate ==
    (pc = "raised" /\ exc \in NonTransientErrors) =>
        /\ Len(errors) \in 1..5
        /\ \A i \in 1..(Len(errors) - 1) : errors[i] = "transient"
        /\ Last(errors) = "non-transient"
        /\ sleeps = SubSeq(<<500, 1000, 2000, 4000>>, 1, Len(errors) - 1)
        /\ attempts = Len(errors)

C9_Witness ==
    /\ pc = "raised"
    /\ exc \in NonTransientErrors
    /\ errors = <<"transient", "transient", "non-transient">>
    /\ sleeps = <<500, 1000>>

C9_WitnessFirstAttempt ==
    /\ pc = "raised"
    /\ exc \in NonTransientErrors
    /\ attempts = 1
    /\ sleeps = <<>>

C11_ParserReturnsMapping ==
    \A i \in 1..Len(dispatched) : dispatched[i].args.type = "dict"

\* a name no schema declares
UndeclaredTool == "send_email"
\* the argument values the parser can hand to the dispatcher
ArgumentValues == {_safe_json_loads(p).value : p \in Payloads}

\* C12: for a tool name that is not in the registry (one whose schema is declared
\* but whose implementation was dropped at start-up included), whatever the
\* arguments, _call_tool reports failure with the descriptor
\* "Unknown tool: '<name>'", invokes nothing and raises nothing
C12_UnknownToolReported ==
    /\ \A i \in 1..Len(dispatched) :
         LET d == dispatched[i] IN
         d.name \notin DOMAIN TOOL_REGISTRY =>
            /\ ~d.ok
            /\ ~d.invoked
            /\ d.result = PyDict("_error" :> ("Unknown tool: '" \o d.name \o "'"))
    /\ \A n \in ToolNames \cup {UndeclaredTool} : \A a \in ArgumentValues :
         \A b \in ToolBehaviours :
            n \notin DOMAIN TOOL_REGISTRY =>
               LET c == _call_tool(TOOL_REGISTRY, n, a, b) IN
               /\ c.exc = ""
               /\ ~c.ok
               /\ ~c.invoked
               /\ c.result = PyDict("_error" :> ("Unknown tool: '" \o n \o "'"))
    /\ (pc = "raised" /\ dispatched # <<>>
            /\ Last(dispatched).name \notin DOMAIN TOOL_REGISTRY) => exc \in ApiErrors

C12_Witness ==
    /\ pc = "awaiting"
    /\ Len(dispatched) = 2
    /\ dispatched[1].name = "record_unknown_question"
    /\ dispatched[1].name \in {TOOL_SCHEMAS[i] : i \in 1..Len(TOOL_SCHEMAS)}
    /\ dispatched[1].raw = ObjectPayload
    /\ dispatched[2].name = "record_unknown_question"
    /\ dispatched[2].raw = ArrayPayload
    /\ Cardinality(ToolMessages) = 2

\* C13: when the tool implementation raises, _call_tool reports failure with the
\* descriptor "Tool '<name>' failed: <class>: <message>" and nothing the tool or
\* the dispatcher raises reaches chat's caller
C13_ToolFailureContained ==
    /\ \A i \in 1..Len(dispatched) :
         LET d == dispatched[i] IN
         (d.invoked /\ d.behaviour = "raises") =>
            /\ ~d.ok
            /\ d.result = PyDict("_error" :> ("Tool '" \o d.name \o "' failed: "
                                \o ToolException.class \o ": " \o ToolException.msg))
    /\ exc \notin {ToolException.class, "AttributeError"}

C13_Witness ==
    /\ pc = "awaiting"
    /\ Len(dispatched) = 1
    /\ dispatched[1].invoked
    /\ dispatched[1].behaviour = "raises"
    /\ Cardinality(ToolMessages) = 1

\* number of consecutive tool messages that follow message i
ToolRunAfter(i) ==
    CHOOSE k \in 0..(Len(messages) - i) :
        /\ \A j \in 1..k : messages[i + j].role = "tool"
        /\ (i + k = Len(messages) \/ messages[i + k + 1].role # "tool")

\* C14: an assistant message whose round was processed is followed by exactly one
\* tool message per invocation it requests, in the order of the requests, each
\* carrying the id and the serialized result of its own invocation; they are all
\* in the list when the next model request is issued; every tool message
\* belongs to the run that follows the nearest preceding assistant message
C14_ToolResultsAnswerRequests ==
    /\ \A i \in 1..Len(messages) :
         messages[i].role = "assistant" =>
            LET tcs == Get(messages[i], "tool_calls", <<>>)
                k == ToolRunAfter(i)
            IN /\ k \in {0, Len(tcs)}
               /\ (i < Len(messages) \/ (pc = "awaiting" /\ rounds > 0)) => k = Len(tcs)
               /\ \A m \in 1..k :
                    /\ messages[i + m].tool_call_id = tcs[m].id
                    /\ \E n \in 1..Len(dispatched) :
                         /\ dispatched[n].id = tcs[m].id
                         /\ dispatched[n].name = tcs[m].name
                         /\ messages[i + m].content = json_dumps(dispatched[n].result).text
    /\ \A j \in ToolMessages : j > 1 /\ messages[j - 1].role \in {"assistant", "tool"}
    /\ (pc = "awaiting" /\ rounds > 0) => Last(messages).role \in {"assistant", "tool"}

C14_Witness ==
    /\ pc = "awaiting"
    /\ rounds = 1
    /\ caller_history = <<>>
    /\ Len(messages) = 5
    /\ messages[3].role = "assistant"
    /\ Len(Get(messages[3], "tool_calls", <<>>)) = 2
    /\ messages[4].role = "tool"
    /\ messages[5].role = "tool"
    /\ messages[4].tool_call_id = messages[3].tool_calls[1].id
    /\ messages[5].tool_call_id = messages[3].tool_calls[2].id
    /\ messages[4].tool_call_id # messages[5].tool_call_id
    /\ messages[4].content # messages[5].content

\* roles a caller's history is made of in the case C15 is about
HistoryRoles == {"user", "assistant"}

\* C15: when the caller's history holds user and assistant messages only, the
\* message list of a chat call starts with the system message, has no other
\* system message, keeps [system] + history + [user] as its prefix, and changes
\* only by assistant and tool messages appended at its end
C15_SystemFirstPrefixKept ==
    /\ []((pc # "idle" /\ \A i \in 1..Len(caller_history) :
                              caller_history[i].role \in HistoryRoles) =>
            /\ messages[1] = [role |-> "system", content |-> system_prompt_]
            /\ \A i \in 2..Len(messages) : messages[i].role # "system"
            /\ Len(messages) >= Len(caller_history) + 2
            /\ \E m \in UserMessages :
                 SubSeq(messages, 1, Len(caller_history) + 2)
                    = InitialMessages(system_prompt_, caller_history, m))
    /\ [][pc = "awaiting" =>
            /\ Len(messages') >= Len(messages)
            /\ SubSeq(messages', 1, Len(messages)) = messages
            /\ \A i \in (Len(messages) + 1)..Len(messages') :
                 messages'[i].role \in {"assistant", "tool"}]_vars

C15_Witness ==
    /\ pc = "done"
    /\ caller_history # <<>>
    /\ rounds = 2
    /\ Len(messages) = Len(caller_history) + 2 + 5
    /\ messages[1].role = "system"
    /\ messages[Len(caller_history) + 2] = [role |-> "user", content |-> "hi"]

\* text t stands in the prompt from line p on, every character of it kept
EmbeddedAt(t, prompt, p) ==
    /\ p + Len(t) - 1 <= Len(prompt)
    /\ prompt[p].text = t[1].text
    /\ prompt[p].indent >= t[1].indent
    /\ \A k \in 2..Len(t) : prompt[p + k - 1] = t[k]
IsHeading(l, t) == l.text = t

\* C16: for every subset of the fields, system_prompt returns the text with
\* "Unknown Person", "", "" and the two default tool identifiers in place of the
\* missing fields, and every supplied field stands in it unchanged
C16_PromptDefaultsAndFields ==
    pc = "idle" =>
        LET kw == prompt_kwargs
            name == Get(kw, "name", "Unknown Person")
            unknown_tool == Get(kw, "unknown_tool", "record_unknown_question")
            contact_tool == Get(kw, "contact_tool", "record_user_details")
            summary == Get(kw, "summary", EmptyText)
            linkedin == Get(kw, "linkedin", EmptyText)
            out == system_prompt_
        IN /\ out[1].text = "You are acting as " \o name
                    \o ". You are answering questions on " \o name \o "'s website,"
           /\ out[6].text = "If you don't know the answer to any question, use your "
                    \o unknown_tool \o " tool to record the question that you couldn't answer,"
           /\ out[9].text = "record it using your " \o contact_tool \o " tool."
           /\ IsHeading(out[11], "## Summary:")
           /\ EmbeddedAt(summary, out, 12)
           /\ IsHeading(out[12 + Len(summary) + 1], "## LinkedIn Profile:")
           /\ EmbeddedAt(linkedin, out, 12 + Len(summary) + 2)

\* C17: what chat returns is "" or the text of an assistant message this call
\* appended, and it is "" when none of them has text; never a text of the
\* caller's history
C17_ReturnFromThisCall ==
    pc = "done" =>
        LET own == {i \in (Len(caller_history) + 3)..Len(messages) :
                        messages[i].role = "assistant"}
        IN /\ ret = "" \/ \E i \in own : messages[i].content = ret
           /\ (\A i \in own : Strip(messages[i].content) = "") => ret = ""

\* C18: no tool implementation is invoked for an invocation whose argument
\* payload failed to parse
C18_NoInvokeOnParseFailure ==
    \A i \in 1..Len(dispatched) : IsMalformed(dispatched[i].raw) => ~dispatched[i].invoked

\* what the step that receives a response does, by its finish reason: only a
\* tool_calls response dispatches; any other one ends the call with nothing
\* dispatched; a tool_calls response without requests adds 1 to the counter and
\* no tool message, and goes on to another request (always, or within the budget)
DispatchRule(always) ==
    (pc = "awaiting" /\ Len(finishes') = Len(finishes) + 1) =>
        LET f == Last(finishes')
            m == messages'[Len(messages) + 1]
        IN /\ dispatched' # dispatched => f = "tool_calls"
           /\ f # "tool_calls" =>
                /\ pc' = "done"
                /\ dispatched' = dispatched
                /\ messages' = Append(messages, m)
                /\ rounds' = rounds /\ requests' = requests
           /\ (f = "tool_calls" /\ Get(m, "tool_calls", <<>>) = <<>>) =>
                /\ tool_turns' = tool_turns + 1
                /\ messages' = Append(messages, m)
                /\ dispatched' = dispatched
                /\ IF always \/ tool_turns' <= max_tool_turns
                   THEN pc' = "awaiting" /\ requests' = requests + 1
                   ELSE pc' = "done" /\ requests' = requests

\* C19 as stated: a tool_calls response without requests always leads to another
\* model request
C19_DispatchOnlyOnToolCalls_Original == [][DispatchRule(TRUE)]_vars

\* C19 amended: tools are dispatched only for a tool_calls response; any other
\* finish reason ends the call with none of the carried requests dispatched; a
\* tool_calls response without requests adds 1 to the counter, appends no tool
\* message and leads to another model request unless the counter now exceeds
\* max_tool_turns, in which case the call ends
C19_DispatchOnlyOnToolCalls == [][DispatchRule(FALSE)]_vars

C19_Witness ==
    /\ pc = "done"
    /\ finishes = <<"tool_calls", "stop">>
    /\ tool_turns = 1
    /\ requests = 2
    /\ dispatched = <<>>
    /\ ToolMessages = {}
    /\ "tool_calls" \notin DOMAIN messages[Len(messages) - 1]
    /\ "tool_calls" \in DOMAIN Last(messages)

\* C20: a chat call, returning or failing, leaves the caller's history, the
\* registry, the system prompt and max_tool_turns as they were; its message list
\* and counter are its own, so the next call starts from counter 0 and from
\* [system] + its own history + its own user message
C20_CallIsolated ==
    [][ /\ TOOL_REGISTRY' = TOOL_REGISTRY
        /\ system_prompt_' = system_prompt_
        /\ max_tool_turns' = max_tool_turns
        /\ pc = "awaiting" => caller_history' = caller_history
        /\ (pc \in {"done", "raised"} /\ pc' = "awaiting") =>
             /\ tool_turns' = 0
             /\ requests' = 1
             /\ rounds' = 0
             /\ exc' = "" /\ ret' = ""
             /\ dispatched' = <<>> /\ finishes' = <<>>
             /\ caller_history' \in Histories
             /\ \E m \in UserMessages :
                  messages' = InitialMessages(system_prompt_, caller_history', m) ]_vars

C20_Witness ==
    /\ pc = "raised"
    /\ exc \in ApiErrors
    /\ rounds = 2
    /\ tool_turns = 2
    /\ Len(messages) > Len(caller_history) + 2
    /\ caller_history = << [role |-> "user", content |-> "Who are you?"],
                           [role |-> "assistant", content |-> "Old reply"] >>

====
